---------------------------- MODULE Spec2Model ----------------------------
(***************************************************************************)
(* A model of the three hub controllers of the repository:                 *)
(*   train_controller.py  (TrainHub: fixed-delay start, heartbeat that     *)
(*                         alternates speed command / keep-alive)          *)
(*   train_morelogging.py (TrainHub: discovery-gated start, heartbeat that *)
(*                         always re-sends the speed command)              *)
(*   train_tryagain.py    (SimpleTrainHub: discovery-gated, no heartbeat)  *)
(* The variable `variant` says which of the three programs is running; it  *)
(* is chosen in Init and never changes.                                    *)
(*                                                                         *)
(* Three asyncio tasks are modelled: the lifecycle caller (connect /       *)
(* disconnect), the command caller (set_speed / stop / set_led) and the    *)
(* heartbeat loop(s) created by connect.  Every `await` of the source is a *)
(* position of the task that executes it; the code between two awaits is   *)
(* one atomic step, as on a single-threaded event loop.                    *)
(***************************************************************************)
EXTENDS Integers, Sequences, FiniteSets

(***************************************************************************)
(* Bounds of the model.                                                    *)
(***************************************************************************)
\* number of heartbeat tasks that can exist at once: the current one and
\* those a repeated connect() left behind.  connect() starts its heartbeat
\* when a task slot is free.
MaxLoops == 1

\* the same, in the specification of the heartbeat alone (SchedulerSpec)
MaxLoopsScheduler == 2

(***************************************************************************)
(* Program constants.                                                      *)
(***************************************************************************)
MAX_SPEED == 100
MIN_SPEED == -100
MOTOR_PORT == 0
LED_PORT == 50
FEEDBACK == 17
NO_FEEDBACK == 1
DEFAULT_COLOR == 9
PORTS_EXPECTED == 4
NoColor == -1

Variants == {"train_controller", "train_morelogging", "train_tryagain"}
HeartbeatVariants == {"train_controller", "train_morelogging"}
DiscoveryVariants == {"train_morelogging", "train_tryagain"}

(***************************************************************************)
(* Strings are sequences of one-character strings, so that str.lower() is  *)
(* computed and not assumed.                                               *)
(***************************************************************************)
UpperChars == <<"A","B","C","D","E","F","G","H","I","J","K","L","M",
                "N","O","P","Q","R","S","T","U","V","W","X","Y","Z">>
LowerChars == <<"a","b","c","d","e","f","g","h","i","j","k","l","m",
                "n","o","p","q","r","s","t","u","v","w","x","y","z">>

LowerChar(c) ==
    IF \E i \in 1..Len(UpperChars) : UpperChars[i] = c
    THEN LowerChars[CHOOSE i \in 1..Len(UpperChars) : UpperChars[i] = c]
    ELSE c

LowerIdentity(s) == s
Lower(s) == [i \in 1..Len(s) |-> LowerChar(s[i])]

LED_COLORS ==
    { << <<"o","f","f">>, 0 >>,
      << <<"p","i","n","k">>, 1 >>,
      << <<"p","u","r","p","l","e">>, 2 >>,
      << <<"b","l","u","e">>, 3 >>,
      << <<"l","i","g","h","t","_","b","l","u","e">>, 4 >>,
      << <<"c","y","a","n">>, 5 >>,
      << <<"g","r","e","e","n">>, 6 >>,
      << <<"y","e","l","l","o","w">>, 7 >>,
      << <<"o","r","a","n","g","e">>, 8 >>,
      << <<"w","h","i","t","e">>, 9 >>,
      << <<"r","e","d">>, 10 >> }

\* dict.get(key, default)
LedGet(key, default) ==
    IF \E e \in LED_COLORS : e[1] = key
    THEN (CHOOSE e \in LED_COLORS : e[1] = key)[2]
    ELSE default

\* the color code set_led computes from the name it is given
ColorCode(v, name) ==
    IF v = "train_tryagain"
    THEN LedGet(Lower(name), DEFAULT_COLOR)
    ELSE LedGet(Lower(name), NoColor)

(***************************************************************************)
(* Command frames.                                                         *)
(***************************************************************************)
ClampNone(speed) == speed
Clamp(speed) ==
    IF speed > MAX_SPEED THEN MAX_SPEED
    ELSE IF speed < MIN_SPEED THEN MIN_SPEED
    ELSE speed

\* speed & 0xFF on a Python int (two's complement)
ToByte(n) == (n + 256) % 256

\* completion byte: 0x11 in the two TrainHub files, 0x01 in SimpleTrainHub
CompletionNoFeedback(v) == NO_FEEDBACK
Completion(v) == IF v = "train_tryagain" THEN NO_FEEDBACK ELSE FEEDBACK

\* the motor command for speed on port
SpeedFrameOn(v, port, speed) ==
    <<8, 0, 129, port, Completion(v), 81, 0, ToByte(Clamp(speed))>>

\* ... on the default port, as every caller in the TrainHub files sends it
SpeedFrameToLed(v, speed) == SpeedFrameOn(v, LED_PORT, speed)
SpeedFrame(v, speed) == SpeedFrameOn(v, MOTOR_PORT, speed)

LedFrame(v, color_code) ==
    <<8, 0, 129, LED_PORT, Completion(v), 81, 0, ToByte(color_code)>>

KeepAliveFrame == <<5, 0, 1, 1, 5>>

NoFrame == <<>>

IsPortCommand(f) == Len(f) = 8 /\ f[3] = 129
IsMotorCommand(f) == IsPortCommand(f) /\ f[4] = MOTOR_PORT
IsLedCommand(f) == IsPortCommand(f) /\ f[4] = LED_PORT

(***************************************************************************)
(* Inbound notification frames.                                            *)
(***************************************************************************)
IO_MOTOR == 2
IO_LED == 23
IO_VOLTAGE == 20
IO_CURRENT == 21
RequiredKinds == {IO_MOTOR, IO_LED, IO_VOLTAGE, IO_CURRENT}

AttachFrame(port, io) == <<6, 0, 4, port, 1, io>>
DetachFrame(port) == <<5, 0, 4, port, 0>>

\* an io type the handlers have no name for: a light on an external port
IO_LIGHT == 8

\* the ports a City/Train hub announces after the subscription, in order
\* (train_morelogging.py:112 names them)
HubAnnouncement ==
    << AttachFrame(0, IO_MOTOR), AttachFrame(50, IO_LED),
       AttachFrame(59, IO_CURRENT), AttachFrame(60, IO_VOLTAGE) >>

\* Python's data[k] is data[k+1] here.  The handler raises IndexError when
\* it reads data[3] or data[4] of a frame that is too short.
HandlerRaises(v, data) ==
    CASE v = "train_controller" -> FALSE
      [] v = "train_morelogging" ->
            /\ Len(data) >= 3
            /\ \/ data[3] = 4 /\ Len(data) < 5
               \/ data[3] = 130 /\ Len(data) < 4
      [] v = "train_tryagain" ->
            Len(data) >= 3 /\ data[3] = 4 /\ Len(data) < 5

\* the frame is a port-attached notification the handler acts on
IsAttach(v, data) ==
    /\ v \in DiscoveryVariants
    /\ Len(data) >= 5
    /\ data[3] = 4
    /\ data[5] = 1

\* self._ports_discovered after the handler ran on data
PortsAfter(v, ports, data) ==
    IF IsAttach(v, data) THEN ports \cup {data[4]} ELSE ports

\* whether the handler sets the discovery event on data
SetsEvent(v, ports, data) ==
    IsAttach(v, data) /\ Cardinality(PortsAfter(v, ports, data)) >= PORTS_EXPECTED

\* What the notifications of the current connection say is attached: the
\* (port, io_type) pairs of the attach frames, less the detached ports.
\* A frame too short to carry its fields is no report at all.
RegistryAfter(reg, data) ==
    IF Len(data) >= 5 /\ data[3] = 4
    THEN IF data[5] = 1
         THEN {e \in reg : e[1] # data[4]}
                 \cup {<<data[4], IF Len(data) > 5 THEN data[6] ELSE 0>>}
         ELSE IF data[5] = 0
              THEN {e \in reg : e[1] # data[4]}
              ELSE reg
    ELSE reg

KindsOf(reg) == {e[2] : e \in reg}

(***************************************************************************)
(* Inputs.                                                                 *)
(***************************************************************************)
Speeds == {-150, 0, 30, 150}

\* the port argument of SimpleTrainHub.set_speed: port A (the default) or B
PORT_B == 1
Ports == {MOTOR_PORT, PORT_B}

Green == <<"g","r","e","e","n">>
GreenCapital == <<"G","r","e","e","n">>
Chartreuse == <<"c","h","a","r","t","r","e","u","s","e">>
RedUpper == <<"R","E","D">>
LedNames == {Green, GreenCapital, RedUpper, Chartreuse}

\* frames the hub may send at any time besides its port announcements: a
\* truncated frame, an error report, and what plugging a light into port B
\* and unplugging the motor of port A make it send
StrayFrames ==
    { <<3, 0, 4>>, <<5, 0, 5, 129, 5>>,
      AttachFrame(PORT_B, IO_LIGHT), DetachFrame(MOTOR_PORT) }

(***************************************************************************)
(* State.                                                                  *)
(***************************************************************************)
VARIABLES
    variant,                  \* which of the three programs runs
    address,                  \* self.address: "None" or "addr"
    client,                   \* self.client: "None" or "client"
    link,                     \* is_connected of the latest BleakClient object
    notifying,                \* start_notify is in effect on that object
    desired_speed,            \* self._desired_speed
    running,                  \* self._running
    initialized,              \* self._initialized
    heartbeat_task,           \* self._heartbeat_task: 0 (None) or a loop
    carried,                  \* history: the desired speed is not 0 and no
                              \* set_speed was called since the latest
                              \* disconnect() began
    ports_discovered,         \* self._ports_discovered
    port_discovery_complete,  \* the asyncio.Event of port discovery
    loops,                    \* the heartbeat tasks: position, frame in flight
    life,                     \* the task calling connect() / disconnect()
    cmd,                      \* the task calling set_speed / stop / set_led
    registry,                 \* what the hub reported attached, this connection
    rx                        \* how the handler ended on the last notification
                              \* ("ok", or "raised" with the frame it raised on)

hubVars == <<address, client, link, notifying>>
ctlVars == <<desired_speed, running, initialized, heartbeat_task, carried>>
portVars == <<ports_discovered, port_discovery_complete>>
vars == <<variant, address, client, link, notifying, desired_speed, running,
          initialized, heartbeat_task, carried, ports_discovered,
          port_discovery_complete, loops, life, cmd, registry, rx>>

LoopIds == DOMAIN loops

\* `self.client and self.client.is_connected`
IsConnected == client = "client" /\ link

\* The Controller state of the design, read off the position of the
\* lifecycle task.
Phase ==
    CASE life.pc \in {"connecting", "subscribing"} -> "Connecting"
      [] life.pc \in {"port_wait", "discovering"} -> "DiscoveringPorts"
      [] life.pc \in {"led_write", "led_settle", "hb_settle"} -> "Ready"
      [] life.pc \in {"joining", "unsubscribing", "closing"} -> "Disconnecting"
      [] OTHER -> IF life.result = "True" /\ IsConnected THEN "Ready" ELSE "Idle"

\* Ready: transport connected, notifications subscribed, required ports
\* reported attached on this connection, and connect() past its gate.
HubReady ==
    /\ Phase = "Ready"
    /\ IsConnected
    /\ notifying
    /\ RequiredKinds \subseteq KindsOf(registry)

\* A write awaited by a task: the frame handed to the transport, and, as
\* they were when the write began, the desired speed and whether the hub
\* was Ready.  `retry` marks the write of a heartbeat pass begun after the
\* immediate write of set_speed failed in Ready (and before another call).
NoWrite == [frame |-> NoFrame, speed |-> 0, ready |-> FALSE, retry |-> FALSE]
Write(frame, speed) ==
    [frame |-> frame, speed |-> speed, ready |-> HubReady, retry |-> FALSE]

Idle == [pc |-> "idle", op |-> "none", result |-> "none", w |-> NoWrite]
\* `failed` remembers, until the next call, that the write of the last call
\* raised (the op of that call), and w.ready whether it was made in Ready
NoCall == [pc |-> "idle", op |-> "none", speed |-> 0, port |-> MOTOR_PORT,
           name |-> <<>>, w |-> NoWrite, failed |-> "none"]
NoLoop == [pc |-> "none", w |-> NoWrite]

\* the state after construction of one of the programs vs, with room for n
\* heartbeat tasks
Start(vs, n) ==
    /\ variant \in vs
    /\ address = "None"
    /\ client = "None"
    /\ link = FALSE
    /\ notifying = FALSE
    /\ desired_speed = 0
    /\ running = FALSE
    /\ initialized = FALSE
    /\ heartbeat_task = 0
    /\ carried = FALSE
    /\ ports_discovered = {}
    /\ port_discovery_complete = FALSE
    /\ loops = [i \in 1..n |-> NoLoop]
    /\ life = Idle
    /\ cmd = NoCall
    /\ registry = {}
    /\ rx = [frame |-> NoFrame, outcome |-> "none"]

Init == Start(Variants, MaxLoops)

(***************************************************************************)
(* Lifecycle task: connect().                                              *)
(***************************************************************************)
Return(result) ==
    [pc |-> "idle", op |-> "none", result |-> result, w |-> NoWrite]
At(pc) == [life EXCEPT !.pc = pc]

\* a heartbeat task slot asyncio.create_task can take: no task, or a
\* finished one
FreeLoop(i) == loops[i].pc \in {"none", "done"}

\* connect() up to `await self.client.connect(...)`: resolve the address
\* (the scan may find no hub) and make a new BleakClient
ConnectCall ==
    /\ life.pc = "idle"
    /\ \/ /\ address = "None"
          /\ life' = Return("False:no_hub")
          /\ UNCHANGED <<hubVars, registry>>
       \/ /\ address' = "addr"
          /\ client' = "client"
          /\ link' = FALSE
          /\ notifying' = FALSE
          /\ registry' = {}
          /\ life' = [pc |-> "connecting", op |-> "connect", result |-> "none",
                      w |-> NoWrite]
    /\ UNCHANGED <<variant, ctlVars, portVars, loops, cmd, rx>>

\* client.connect() returns or raises; on success connect() goes on to
\* `await self.client.start_notify(...)`
ConnectDone ==
    /\ life.pc = "connecting"
    /\ \/ /\ link' = TRUE
          /\ life' = At("subscribing")
          /\ UNCHANGED client
       \/ /\ link' = FALSE
          /\ client' = IF variant = "train_tryagain" THEN client ELSE "None"
          /\ life' = Return("False:connect")
    /\ UNCHANGED <<variant, address, notifying, ctlVars, portVars, loops, cmd, registry, rx>>

\* start_notify returns or raises; nothing in connect() catches the error
SubscribeDone ==
    /\ life.pc = "subscribing"
    /\ \/ /\ link
          /\ notifying' = TRUE
          /\ life' = At(IF variant = "train_controller"
                        THEN "port_wait" ELSE "discovering")
       \/ /\ life' = Return("raised")
          /\ UNCHANGED notifying
    /\ UNCHANGED <<variant, address, client, link, ctlVars, portVars, loops,
                   cmd, registry, rx>>

\* train_controller: the 4 s sleep is over; mark initialized and call
\* set_led("green"), which writes when the client is connected
PortWaitDone ==
    /\ variant = "train_controller"
    /\ life.pc = "port_wait"
    /\ initialized' = TRUE
    /\ life' = IF IsConnected
               THEN [life EXCEPT !.pc = "led_write",
                       !.w = Write(LedFrame(variant, ColorCode(variant, Green)),
                                   desired_speed)]
               ELSE At("led_settle")
    /\ UNCHANGED <<variant, hubVars, desired_speed, carried, running, heartbeat_task,
                   portVars, loops, cmd, registry, rx>>

\* the LED write of connect() returns or raises (set_led swallows the
\* error); connect() goes on to its 1 s sleep
LedWriteDone ==
    /\ life.pc = "led_write"
    /\ life' = [life EXCEPT !.pc = "led_settle", !.w = NoWrite]
    /\ UNCHANGED <<variant, hubVars, ctlVars, portVars, loops, cmd,
                   registry, rx>>

\* self._running = True; asyncio.create_task(self._heartbeat_loop())
StartHeartbeat(i) ==
    /\ running' = TRUE
    /\ heartbeat_task' = i
    /\ loops' = [j \in LoopIds |->
                    IF j = i THEN [pc |-> "ready", w |-> NoWrite]
                    ELSE IF loops[j].pc = "done" THEN NoLoop
                    ELSE loops[j]]

\* train_controller: the 1 s sleep is over; start the heartbeat, return True
LedSettleDone ==
    /\ life.pc = "led_settle"
    /\ \E i \in LoopIds :
          /\ FreeLoop(i)
          /\ \A j \in LoopIds : FreeLoop(j) => i <= j
          /\ StartHeartbeat(i)
    /\ life' = Return("True")
    /\ UNCHANGED <<variant, hubVars, desired_speed, carried, initialized, portVars, cmd, registry, rx>>

\* wait_for(event.wait(), 5.0) returns: the discovery event is set.
\* train_morelogging marks initialized and starts the heartbeat, then sleeps
\* 0.3 s; train_tryagain returns True.
DiscoveryComplete ==
    /\ life.pc = "discovering"
    /\ port_discovery_complete
    /\ IF variant = "train_morelogging"
       THEN /\ initialized' = TRUE
            /\ \E i \in LoopIds :
                  /\ FreeLoop(i)
                  /\ \A j \in LoopIds : FreeLoop(j) => i <= j
                  /\ StartHeartbeat(i)
            /\ life' = At("hb_settle")
       ELSE /\ life' = Return("True")
            /\ UNCHANGED <<running, initialized, heartbeat_task, loops>>
    /\ UNCHANGED <<variant, hubVars, desired_speed, carried, portVars, cmd, registry,
                   rx>>

\* train_morelogging: the 0.3 s sleep is over; return True
HbSettleDone ==
    /\ life.pc = "hb_settle"
    /\ life' = Return("True")
    /\ UNCHANGED <<variant, hubVars, ctlVars, portVars, loops, cmd,
                   registry, rx>>

(***************************************************************************)
(* Lifecycle task: disconnect(), called by the application or by connect() *)
(* on a discovery timeout.                                                 *)
(***************************************************************************)
\* what disconnect() returns to: its caller, or connect(), which then
\* returns False
Returned(l) ==
    Return(IF l.op = "connect" THEN "False:timeout" ELSE "disconnected")

\* disconnect() from `if self.client and self.client.is_connected:` on.
\* The TrainHub files end with self.client = None; SimpleTrainHub keeps it.
AfterJoin(l) ==
    IF IsConnected
    THEN /\ life' = [l EXCEPT !.pc = "unsubscribing"]
         /\ UNCHANGED client
    ELSE /\ life' = Returned(l)
         /\ client' = IF variant = "train_tryagain" THEN client ELSE "None"

\* self._running = False, the first statement of TrainHub.disconnect
RunningKept(r) == r
RunningAfterDisconnect(r) == FALSE

\* disconnect() up to its first await
DisconnectBody(l) ==
    IF variant = "train_tryagain"
    THEN /\ AfterJoin(l)
         /\ UNCHANGED <<ctlVars, loops>>
    ELSE /\ running' = RunningAfterDisconnect(running)
         /\ carried' = (desired_speed # 0)
         /\ UNCHANGED <<desired_speed, initialized, heartbeat_task, loops>>
         /\ IF heartbeat_task # 0
            THEN /\ life' = [l EXCEPT !.pc = "joining"]
                 /\ UNCHANGED client
            ELSE AfterJoin(l)

DisconnectCall ==
    /\ life.pc = "idle"
    /\ DisconnectBody([life EXCEPT !.op = "disconnect", !.result = "none"])
    /\ UNCHANGED <<variant, address, link, notifying, portVars, cmd,
                   registry, rx>>

\* wait_for times out: the event is not set; connect() calls disconnect()
DiscoveryTimeout ==
    /\ life.pc = "discovering"
    /\ ~port_discovery_complete
    /\ DisconnectBody(life)
    /\ UNCHANGED <<variant, address, link, notifying, portVars, cmd,
                   registry, rx>>

\* `await self._heartbeat_task` returns: the task has finished
JoinDone ==
    /\ life.pc = "joining"
    /\ heartbeat_task # 0
    /\ loops[heartbeat_task].pc = "done"
    /\ loops' = [loops EXCEPT ![heartbeat_task] = NoLoop]
    /\ heartbeat_task' = 0
    /\ AfterJoin(life)
    /\ UNCHANGED <<variant, address, link, notifying, desired_speed, carried, running,
                   initialized, portVars, cmd, registry, rx>>

\* stop_notify returns or raises.  The TrainHub files swallow the error and
\* go on to client.disconnect(); SimpleTrainHub has both calls in one try,
\* so an error of stop_notify skips client.disconnect().
UnsubscribeDone ==
    /\ life.pc = "unsubscribing"
    /\ \/ /\ notifying' = FALSE
          /\ life' = At("closing")
       \/ /\ UNCHANGED notifying
          /\ life' = IF variant = "train_tryagain"
                     THEN Returned(life) ELSE At("closing")
    /\ UNCHANGED <<variant, address, client, link, ctlVars, portVars, loops,
                   cmd, registry, rx>>

\* client.disconnect() returns or raises (swallowed); an error leaves the
\* link as the transport left it.  The TrainHub files then drop the client.
CloseDone ==
    /\ life.pc = "closing"
    /\ \/ /\ link' = FALSE
          /\ notifying' = FALSE
       \/ UNCHANGED <<link, notifying>>
    /\ client' = IF variant = "train_tryagain" THEN client ELSE "None"
    /\ life' = Returned(life)
    /\ UNCHANGED <<variant, address, ctlVars, portVars, loops, cmd,
                   registry, rx>>

(***************************************************************************)
(* Heartbeat task(s): _heartbeat_loop.                                     *)
(***************************************************************************)
\* what one pass of the loop body sends: train_controller sends the speed
\* command when the speed is not 0 and the keep-alive otherwise (nothing
\* before initialization); train_morelogging always sends the speed command
HeartbeatFrameAlwaysSpeed(v, init, speed) == SpeedFrame(v, speed)
HeartbeatFrameKeepAliveOnly(v, init, speed) == KeepAliveFrame
HeartbeatFrame(v, init, speed) ==
    IF v = "train_controller"
    THEN IF init /\ speed # 0 THEN SpeedFrame(v, speed)
         ELSE IF init THEN KeepAliveFrame
         ELSE NoFrame
    ELSE SpeedFrame(v, speed)

\* a task that left its loop: finished, and forgotten unless it is the one
\* self._heartbeat_task refers to
ExitedRetries(i) == [pc |-> "ready", w |-> NoWrite]
Exited(i) == IF i = heartbeat_task THEN [pc |-> "done", w |-> NoWrite] ELSE NoLoop

\* the loop wakes (first run, or its sleep is over), tests the while
\* condition and either hands a frame to the transport or leaves the loop
HeartbeatTick(i) ==
    /\ loops[i].pc = "ready"
    /\ IF running /\ IsConnected
       THEN LET f == HeartbeatFrame(variant, initialized, desired_speed)
            IN  IF f = NoFrame
                THEN UNCHANGED loops
                ELSE loops' = [loops EXCEPT ![i] =
                        [pc |-> "writing",
                         w |-> [Write(f, desired_speed) EXCEPT !.retry =
                                  /\ cmd.pc = "idle"
                                  /\ cmd.failed = "set_speed"
                                  /\ cmd.w.ready]]]
       ELSE loops' = [loops EXCEPT ![i] = Exited(i)]
    /\ UNCHANGED <<variant, hubVars, ctlVars, portVars, life, cmd, registry, rx>>

\* the write of a pass returns: the loop sleeps
HeartbeatWriteReturns(i) ==
    /\ loops[i].pc = "writing"
    /\ loops' = [loops EXCEPT ![i] = [pc |-> "ready", w |-> NoWrite]]
    /\ UNCHANGED <<variant, hubVars, ctlVars, portVars, life, cmd, registry, rx>>

\* the write of a pass raises: the loop sets _running = False and breaks
HeartbeatWriteRaises(i) ==
    /\ loops[i].pc = "writing"
    /\ loops' = [loops EXCEPT ![i] = Exited(i)]
    /\ running' = FALSE
    /\ UNCHANGED <<variant, hubVars, desired_speed, carried, initialized, heartbeat_task,
                   portVars, life, cmd, registry, rx>>

HeartbeatWriteDone(i) == HeartbeatWriteReturns(i) \/ HeartbeatWriteRaises(i)

(***************************************************************************)
(* Command task: set_speed, stop, set_led.                                 *)
(***************************************************************************)
\* what set_speed stores in self._desired_speed (SimpleTrainHub stores
\* nothing)
StoredSpeedKeepsOld(v, old, speed) == old
StoredSpeed(v, old, speed) == IF v = "train_tryagain" THEN old ELSE speed

\* set_speed(speed) up to the await of its write; a call that writes
\* nothing returns at once
SetSpeedBody(op, speed, port) ==
    /\ cmd.pc = "idle"
    /\ desired_speed' = StoredSpeed(variant, desired_speed, speed)
    /\ carried' = FALSE
    /\ cmd' = IF IsConnected
              THEN [NoCall EXCEPT !.pc = "writing", !.op = op, !.speed = speed,
                      !.port = port,
                      !.w = Write(SpeedFrameOn(variant, port, speed),
                                  desired_speed')]
              ELSE NoCall
    /\ UNCHANGED <<variant, hubVars, running, initialized, heartbeat_task,
                   portVars, loops, life, registry, rx>>

\* the TrainHub files send on the default port; SimpleTrainHub.set_speed
\* takes the port from its caller
SetSpeed(speed) ==
    \E port \in Ports :
        /\ variant \in HeartbeatVariants => port = MOTOR_PORT
        /\ SetSpeedBody("set_speed", speed, port)

\* stop() is set_speed(0); SimpleTrainHub has no stop()
Stop ==
    /\ variant \in HeartbeatVariants
    /\ SetSpeedBody("stop", 0, MOTOR_PORT)

\* set_led(color_name) up to the await of its write; an unknown name
\* (TrainHub) or a client that is not connected makes it return at once
SetLed(name) ==
    /\ cmd.pc = "idle"
    /\ LET color_code == ColorCode(variant, name)
       IN  cmd' = IF color_code # NoColor /\ IsConnected
                  THEN [NoCall EXCEPT !.pc = "writing", !.op = "set_led",
                          !.name = name,
                          !.w = Write(LedFrame(variant, color_code),
                                      desired_speed)]
                  ELSE NoCall
    /\ UNCHANGED <<variant, hubVars, ctlVars, portVars, loops, life, registry, rx>>

\* where the call is after its write raised: `except Exception` around the
\* write (set_speed, set_led; _send_command of SimpleTrainHub) prints the
\* error and the call returns
CallAfterErrorRaises(v) == "raised"
CallAfterError(v) == "idle"

\* the write of the call returns, and the call with it
CommandWriteReturns ==
    /\ cmd.pc = "writing"
    /\ cmd' = NoCall
    /\ UNCHANGED <<variant, hubVars, ctlVars, portVars, loops, life, registry, rx>>

\* the write of the call raises
CommandWriteRaises ==
    /\ cmd.pc = "writing"
    /\ cmd' = [NoCall EXCEPT !.pc = CallAfterError(variant),
                             !.failed = cmd.op,
                             !.w = [NoWrite EXCEPT !.ready = cmd.w.ready]]
    /\ UNCHANGED <<variant, hubVars, ctlVars, portVars, loops, life, registry, rx>>

CommandWriteDone == CommandWriteReturns \/ CommandWriteRaises

(***************************************************************************)
(* The hub and the link.                                                   *)
(***************************************************************************)
\* the notification callback runs on data
Notify(data) ==
    /\ ports_discovered' = IF HandlerRaises(variant, data) THEN ports_discovered
                           ELSE PortsAfter(variant, ports_discovered, data)
    /\ port_discovery_complete' =
          (port_discovery_complete
             \/ (~HandlerRaises(variant, data)
                   /\ SetsEvent(variant, ports_discovered, data)))
    /\ registry' = RegistryAfter(registry, data)
    /\ rx' = IF HandlerRaises(variant, data)
             THEN [frame |-> data, outcome |-> "raised"]
             ELSE [frame |-> NoFrame, outcome |-> "ok"]
    /\ UNCHANGED <<variant, hubVars, ctlVars, loops, life, cmd>>

\* the ports the hub has attached, and the announcement it makes next: of
\* the first of its ports that is not attached
AttachedPorts == {e[1] : e \in registry}
NextAnnouncement ==
    {HubAnnouncement[k] : k \in
        {n \in 1..Len(HubAnnouncement) :
            /\ HubAnnouncement[n][4] \notin AttachedPorts
            /\ \A m \in 1..(n - 1) : HubAnnouncement[m][4] \in AttachedPorts}}

\* the hub announces its next port, or sends a stray frame
HubSends ==
    /\ link
    /\ notifying
    /\ \E data \in StrayFrames \cup NextAnnouncement : Notify(data)

\* the BLE link drops
LinkLost ==
    /\ link
    /\ link' = FALSE
    /\ notifying' = FALSE
    /\ UNCHANGED <<variant, address, client, ctlVars, portVars, loops, life,
                   cmd, registry, rx>>

Next ==
    \/ ConnectCall
    \/ ConnectDone
    \/ SubscribeDone
    \/ PortWaitDone
    \/ LedWriteDone
    \/ LedSettleDone
    \/ DiscoveryComplete
    \/ HbSettleDone
    \/ DiscoveryTimeout
    \/ DisconnectCall
    \/ JoinDone
    \/ UnsubscribeDone
    \/ CloseDone
    \/ \E i \in LoopIds : HeartbeatTick(i)
    \/ \E i \in LoopIds : HeartbeatWriteDone(i)
    \/ \E speed \in Speeds : SetSpeed(speed)
    \/ Stop
    \/ \E name \in LedNames : SetLed(name)
    \/ CommandWriteDone
    \/ HubSends
    \/ LinkLost

Spec == Init /\ [][Next]_vars

(***************************************************************************)
(* The heartbeat alone: the two TrainHub programs with room for a second   *)
(* heartbeat task, a hub that only announces its ports, and an application *)
(* that calls connect(), disconnect() and set_speed(30).                   *)
(***************************************************************************)
SchedulerInit == Start(HeartbeatVariants, MaxLoopsScheduler)

HubAnnounces ==
    /\ link
    /\ notifying
    /\ \E data \in NextAnnouncement : Notify(data)

SchedulerNext ==
    \/ ConnectCall
    \/ ConnectDone
    \/ SubscribeDone
    \/ PortWaitDone
    \/ LedWriteDone
    \/ LedSettleDone
    \/ DiscoveryComplete
    \/ HbSettleDone
    \/ DiscoveryTimeout
    \/ DisconnectCall
    \/ JoinDone
    \/ UnsubscribeDone
    \/ CloseDone
    \/ \E i \in LoopIds : HeartbeatTick(i)
    \/ \E i \in LoopIds : HeartbeatWriteDone(i)
    \/ SetSpeed(30)
    \/ CommandWriteDone
    \/ HubAnnounces
    \/ LinkLost

SchedulerSpec == SchedulerInit /\ [][SchedulerNext]_vars

\* ... with a fair event loop: a heartbeat task that can run does run, and
\* the calls awaited by the heartbeat and by disconnect() return
SchedulerFairness ==
    /\ \A i \in 1..MaxLoopsScheduler :
          WF_vars(HeartbeatTick(i)) /\ WF_vars(HeartbeatWriteDone(i))
    /\ WF_vars(JoinDone)
    /\ WF_vars(UnsubscribeDone)
    /\ WF_vars(CloseDone)

SchedulerFairSpec == SchedulerSpec /\ SchedulerFairness

(***************************************************************************)
(* Writes in flight.                                                       *)
(***************************************************************************)
WritesInFlight ==
    {loops[i].w : i \in {j \in LoopIds : loops[j].pc = "writing"}}
      \cup (IF cmd.pc = "writing" THEN {cmd.w} ELSE {})
      \cup (IF life.pc = "led_write" THEN {life.w} ELSE {})

NumWriting ==
    Cardinality({j \in LoopIds : loops[j].pc = "writing"})
      + (IF cmd.pc = "writing" THEN 1 ELSE 0)
      + (IF life.pc = "led_write" THEN 1 ELSE 0)

\* the motor frame of the wire format for power p on the default port,
\* feedback requested
MotorFrameOf(p) ==
    LET c == IF p > 100 THEN 100 ELSE IF p < -100 THEN -100 ELSE p
    IN  <<8, 0, 129, 0, 17, 81, 0, IF c < 0 THEN 256 + c ELSE c>>

(***************************************************************************)
(* C1.  No motor or LED command frame is written to the transport unless   *)
(* the connection has reached Ready: every command frame in flight was     *)
(* handed to the transport while the hub was Ready.                        *)
(***************************************************************************)
C1_CommandsOnlyWhenReady ==
    \A w \in WritesInFlight :
        (IsMotorCommand(w.frame) \/ IsLedCommand(w.frame)) => w.ready

(***************************************************************************)
(* C2.  At most one write is in flight on the transport at any instant:    *)
(* the immediate write of set_speed / stop / set_led and the write of a    *)
(* heartbeat pass are never in flight together.                            *)
(***************************************************************************)
C2_OneWriteInFlight ==
    \A i \in LoopIds : ~(loops[i].pc = "writing" /\ cmd.pc = "writing")

TickFrameOf(v, p) ==
    IF p = 0 /\ v = "train_controller" THEN <<5, 0, 1, 1, 5>> ELSE MotorFrameOf(p)

Frame30 == <<8, 0, 129, 0, 17, 81, 0, 30>>

C4_ImmediateWrite ==
    (variant \in HeartbeatVariants /\ HubReady /\ SetSpeed(30)) =>
        /\ cmd'.pc = "writing"
        /\ cmd'.w.frame = Frame30
        /\ NumWriting' = NumWriting + 1

C4_PowerOfWrites(zero) ==
    variant \in HeartbeatVariants =>
        /\ cmd.pc = "writing" /\ cmd.op \in {"set_speed", "stop"} =>
              /\ cmd.w.speed = cmd.speed
              /\ cmd.speed = 30 => cmd.w.frame = Frame30
              /\ cmd.speed = 0 => cmd.w.frame[8] = 0
        /\ \A i \in LoopIds :
              loops[i].pc = "writing" =>
                 /\ loops[i].w.speed = 30 => loops[i].w.frame = Frame30
                 /\ loops[i].w.speed = 0 => loops[i].w.frame = zero

C5_NoDeferredEffect ==
    [][\A v \in Speeds :
          (variant \in HeartbeatVariants /\ ~HubReady /\ SetSpeed(v)) =>
              /\ desired_speed' = desired_speed
              /\ NumWriting' = NumWriting]_vars

(***************************************************************************)
(* C6.  The desired motor power is within [-100, 100] in every reachable   *)
(* state.                                                                  *)
(***************************************************************************)
C6_DesiredSpeedInRange == desired_speed \in -100..100

(***************************************************************************)
(* C7.  Discovery is never skipped: when connect() has returned True,      *)
(* every required port kind (Motor, LED, VoltageSensor, CurrentSensor) has *)
(* been reported attached by a notification of the current connection.     *)
(***************************************************************************)
C7_DiscoveryNeverSkipped ==
    (life.pc = "idle" /\ life.result = "True") =>
        {2, 23, 20, 21} \subseteq KindsOf(registry)

(***************************************************************************)
(* C8.  When connect() has returned because discovery timed out, the       *)
(* transport is closed, notifications are unsubscribed, no heartbeat was   *)
(* started and the Controller is not Ready.                                *)
(***************************************************************************)
C8_TimeoutLeavesNothing ==
    (life.pc = "idle" /\ life.result = "False:timeout") =>
        /\ ~link
        /\ ~notifying
        /\ ~running
        /\ heartbeat_task = 0
        /\ \A i \in LoopIds : loops[i].pc = "none"
        /\ Phase = "Idle"

(***************************************************************************)
(* C9.  Notification handling is total: the handler never raises, whatever *)
(* the frame.                                                              *)
(***************************************************************************)
C9_HandlerNeverRaises == rx.outcome # "raised"

(***************************************************************************)
(* C10.  set_led with a name that is not in the color table writes nothing *)
(* to the transport: no set_led call with such a name awaits a write.      *)
(***************************************************************************)
C10_UnknownColorNoWrite ==
    ~ /\ cmd.pc = "writing"
      /\ cmd.op = "set_led"
      /\ \A e \in LED_COLORS : e[1] # Lower(cmd.name)

(***************************************************************************)
(* C11.  Every motor command handed to the transport for a requested power *)
(* v on port p is the 8-byte frame                                         *)
(* [08 00 81 p completion 51 00 clamp(v,-100,100) mod 256], completion     *)
(* 0x11 where feedback is requested (TrainHub) and 0x01 where it is not    *)
(* (SimpleTrainHub); a request of 150 gives the frame of 100 and a request *)
(* of -150 the frame of -100.                                              *)
(***************************************************************************)
EncodeMotor(p, v, feedback) ==
    LET c == IF v > 100 THEN 100 ELSE IF v < -100 THEN -100 ELSE v
    IN  <<8, 0, 129, p, IF feedback THEN 17 ELSE 1, 81, 0,
          IF c < 0 THEN 256 + c ELSE c>>

C11_MotorFrameLayout ==
    LET feedback == variant \in HeartbeatVariants
    IN  /\ cmd.pc = "writing" /\ cmd.op \in {"set_speed", "stop"} =>
              /\ cmd.w.frame = EncodeMotor(cmd.port, cmd.speed, feedback)
              /\ cmd.speed = 150 =>
                    cmd.w.frame = EncodeMotor(cmd.port, 100, feedback)
              /\ cmd.speed = -150 =>
                    cmd.w.frame = EncodeMotor(cmd.port, -100, feedback)
        /\ \A i \in LoopIds :
              loops[i].pc = "writing" /\ Len(loops[i].w.frame) = 8 =>
                 loops[i].w.frame = EncodeMotor(0, loops[i].w.speed, feedback)

\* SimpleTrainHub.set_speed(-150, port B) awaits its write of
\* [08 00 81 01 01 51 00 9C]
C11_Witness ==
    /\ variant = "train_tryagain"
    /\ cmd.pc = "writing"
    /\ cmd.op = "set_speed"
    /\ cmd.speed = -150
    /\ cmd.port = 1
    /\ cmd.w.frame = <<8, 0, 129, 1, 1, 81, 0, 156>>

(***************************************************************************)
(* C12.  A failure of the immediate write of set_speed, stop or set_led is *)
(* local: the call returns to its caller without raising, the desired      *)
(* speed is the one the call asked for, and the running flag and the       *)
(* heartbeat task are as they were.                                        *)
(***************************************************************************)
C12_WriteFailureIsLocal ==
    [][CommandWriteRaises =>
          /\ cmd'.pc = "idle"
          /\ (variant \in HeartbeatVariants /\ cmd.op \in {"set_speed", "stop"})
                => desired_speed' = cmd.speed
          /\ running' = running
          /\ heartbeat_task' = heartbeat_task
          /\ loops' = loops]_vars

\* the immediate write of set_speed(30) failed and the call has returned;
\* the heartbeat is still running
C12_Witness ==
    /\ variant \in HeartbeatVariants
    /\ cmd.pc = "idle"
    /\ cmd.failed = "set_speed"
    /\ desired_speed = 30
    /\ running
    /\ \E i \in LoopIds : heartbeat_task = i /\ loops[i].pc \in {"ready", "writing"}

(***************************************************************************)
(* C13.  disconnect() is unconditional: whatever the outcome of the        *)
(* unsubscribe and close calls, when it has returned the transport is      *)
(* closed, the client handle is released, the heartbeat is not running and *)
(* the Controller is Idle, not Ready.                                      *)
(***************************************************************************)
C13_DisconnectLeavesIdle ==
    (life.pc = "idle" /\ life.result = "disconnected") =>
        /\ ~link
        /\ client = "None"
        /\ ~running
        /\ heartbeat_task = 0
        /\ ~HubReady
        /\ Phase = "Idle"

(***************************************************************************)
(* C14.  The color lookup of set_led is case-insensitive: for every name   *)
(* of the palette and every letter-case variant of it, set_led called in   *)
(* Ready writes the LED frame [08 00 81 32 completion 51 00 color_code].   *)
(***************************************************************************)
SameLetter(a, b) ==
    \/ a = b
    \/ \E i \in 1..Len(UpperChars) : {a, b} = {UpperChars[i], LowerChars[i]}

CaseVariant(a, b) ==
    /\ Len(a) = Len(b)
    /\ \A i \in 1..Len(a) : SameLetter(a[i], b[i])

C14_LedLookupIgnoresCase ==
    [][\A name \in LedNames : \A e \in LED_COLORS :
          (HubReady /\ CaseVariant(name, e[1]) /\ SetLed(name)) =>
              /\ cmd'.pc = "writing"
              /\ cmd'.w.frame =
                    <<8, 0, 129, 50,
                      IF variant \in HeartbeatVariants THEN 17 ELSE 1,
                      81, 0, e[2]>>]_vars

\* set_led("Green") and set_led("RED"), called in Ready, await the writes of
\* the frames of green and red
C14_Witness ==
    /\ cmd.pc = "writing"
    /\ cmd.op = "set_led"
    /\ cmd.w.ready
    /\ \/ cmd.name = GreenCapital /\ cmd.w.frame = <<8, 0, 129, 50, 17, 81, 0, 6>>
       \/ cmd.name = RedUpper /\ cmd.w.frame = <<8, 0, 129, 50, 1, 81, 0, 10>>

(***************************************************************************)
(* C15.  Last writer wins on the desired speed: set_speed(v) makes v the   *)
(* desired speed and nothing else changes it; a heartbeat pass sends what  *)
(* the desired speed is when the pass begins; a write already handed to    *)
(* the transport is not changed by a later set_speed.                      *)
(***************************************************************************)
C15_Step ==
    /\ \A v \in Speeds :
          (variant \in HeartbeatVariants /\ SetSpeed(v)) => desired_speed' = v
    /\ desired_speed' # desired_speed =>
          (Stop \/ \E v \in Speeds : SetSpeed(v))
    /\ \A i \in LoopIds :
          /\ (HeartbeatTick(i) /\ loops'[i].pc = "writing") =>
                /\ loops'[i].w.speed = desired_speed
                /\ loops'[i].w.frame = TickFrameOf(variant, desired_speed)
          /\ (loops[i].pc = "writing" /\ loops'[i].pc = "writing") =>
                loops'[i].w = loops[i].w

C15_LastWriterWins == [][C15_Step]_vars

\* a pass begun at desired speed 30 is still in flight, carrying 30, after
\* set_speed(0) has stored 0
C15_Witness ==
    \E i \in LoopIds :
        /\ loops[i].pc = "writing"
        /\ loops[i].w.speed = 30
        /\ loops[i].w.frame = <<8, 0, 129, 0, 17, 81, 0, 30>>
        /\ cmd.pc = "writing"
        /\ cmd.speed = 0
        /\ desired_speed = 0

(***************************************************************************)
(* C16.  Port readiness is true iff every required kind (Motor, LED,       *)
(* VoltageSensor, CurrentSensor) has an attached entry: as long as the     *)
(* ports the program has counted are the ports attached (nothing detached, *)
(* nothing left from an earlier connection), its readiness signal is set   *)
(* exactly when all four required kinds are attached.                      *)
(***************************************************************************)
C16_ReadyIffRequiredKinds ==
    (variant \in DiscoveryVariants /\ ports_discovered = AttachedPorts) =>
        (port_discovery_complete <=> {2, 23, 20, 21} \subseteq KindsOf(registry))

(***************************************************************************)
(* C17.  A PortDetached notification removes the port: when all four       *)
(* required ports are attached and readiness is signalled, the detach of   *)
(* the motor port takes the port out of the program's set and flips the    *)
(* readiness signal back to false.                                         *)
(***************************************************************************)
C17_DetachClearsReadiness ==
    [][(/\ variant \in DiscoveryVariants
        /\ port_discovery_complete
        /\ {2, 23, 20, 21} \subseteq KindsOf(registry)
        /\ link /\ notifying
        /\ Notify(<<5, 0, 4, 0, 0>>)) =>
           /\ 0 \notin ports_discovered'
           /\ ~port_discovery_complete']_vars

(***************************************************************************)
(* C18.  The port registry is reset on every new connection: when connect  *)
(* starts a connection, the set of discovered ports is empty and the       *)
(* readiness signal is unset.                                              *)
(***************************************************************************)
C18_RegistryResetOnConnect ==
    [][(variant \in DiscoveryVariants /\ ConnectCall /\ life'.pc = "connecting")
          => /\ ports_discovered' = {}
             /\ ~port_discovery_complete']_vars

(***************************************************************************)
(* C19.  A failed write of a heartbeat pass stops the heartbeat: the       *)
(* running flag is cleared and the loop is left, without a retry; a task   *)
(* that has left its loop writes nothing more (only a task newly created   *)
(* by connect() starts a loop); the failure reaches no caller of the       *)
(* public API, and a disconnect() returns normally.                        *)
(***************************************************************************)
C19_Step ==
    /\ \A i \in LoopIds :
          /\ HeartbeatWriteRaises(i) =>
                /\ ~running'
                /\ loops'[i].pc \in {"done", "none"}
                /\ life' = life
                /\ cmd' = cmd
          /\ (loops[i].pc \in {"done", "none"}
                /\ loops'[i].pc \notin {"done", "none"}) =>
                /\ life.pc \in {"led_settle", "discovering"}
                /\ loops'[i].pc = "ready"
                /\ heartbeat_task' = i
    /\ (life.op = "disconnect" /\ life'.pc = "idle") =>
          life'.result = "disconnected"

C19_FailedTickStopsHeartbeat == [][C19_Step]_vars

\* connect() returned True and the hub is still connected, but the write of
\* a pass failed: the task has left its loop and running is False
C19_Witness ==
    \E i \in LoopIds :
        /\ life.pc = "idle"
        /\ life.result = "True"
        /\ IsConnected
        /\ heartbeat_task = i
        /\ loops[i].pc = "done"
        /\ ~running

(***************************************************************************)
(* C20.  A failed immediate write is retried by the heartbeat, as claimed: *)
(* when the immediate motor write of set_speed(v), made in Ready, has      *)
(* failed and the heartbeat is running, the next pass writes the motor     *)
(* command carrying v, for every v in [-100, 100].                         *)
(***************************************************************************)
C20_RetryPass(i) ==
    /\ variant \in HeartbeatVariants
    /\ cmd.pc = "idle"
    /\ cmd.failed = "set_speed"
    /\ cmd.w.ready
    /\ desired_speed \in -100..100
    /\ running
    /\ IsConnected
    /\ HeartbeatTick(i)

C21_NoTickDuringTeardown ==
    (\/ life.pc \in {"unsubscribing", "closing"}
     \/ life.pc = "idle" /\ life.result = "disconnected") =>
        \A i \in LoopIds : loops[i].pc # "writing"

(***************************************************************************)
(* C22.  Teardown is idempotent: a disconnect() called when the last call  *)
(* was a disconnect(), or when nothing was ever called, awaits no          *)
(* transport operation, returns normally and leaves the state of the       *)
(* Controller as it was.                                                   *)
(***************************************************************************)
C22_SecondDisconnectIsNoOp ==
    [][(life.result \in {"disconnected", "none"} /\ DisconnectCall) =>
          /\ life'.pc = "idle"
          /\ life'.result = "disconnected"
          /\ UNCHANGED <<hubVars, ctlVars, portVars, loops>>]_vars

(***************************************************************************)
(* C23.  The LED is fire-and-forget: a set_led call made in Ready that     *)
(* writes hands exactly one frame to the transport, addressed to the LED   *)
(* port 0x32, and returns without another; no heartbeat pass writes a      *)
(* frame addressed to the LED port.                                        *)
(***************************************************************************)
NumLedWriting ==
    Cardinality({j \in LoopIds :
                    loops[j].pc = "writing" /\ IsLedCommand(loops[j].w.frame)})
      + (IF cmd.pc = "writing" /\ IsLedCommand(cmd.w.frame) THEN 1 ELSE 0)
      + (IF life.pc = "led_write" /\ IsLedCommand(life.w.frame) THEN 1 ELSE 0)

C23_Step ==
    /\ \A name \in LedNames :
          (HubReady /\ SetLed(name) /\ cmd'.pc = "writing") =>
              /\ cmd'.w.frame[4] = 50
              /\ NumLedWriting' = NumLedWriting + 1
              /\ NumWriting' = NumWriting + 1
    /\ (cmd.op = "set_led" /\ CommandWriteReturns) =>
          /\ cmd'.pc = "idle"
          /\ NumLedWriting' = NumLedWriting - 1
          /\ NumWriting' = NumWriting - 1

C23_LedFireAndForget ==
    /\ [][C23_Step]_vars
    /\ [](\A i \in LoopIds :
             loops[i].pc = "writing" => loops[i].w.frame[4] # 50)

\* a heartbeat pass has its motor frame in flight while set_led, called in
\* Ready, awaits the write of its LED frame
C23_Witness ==
    \E i \in LoopIds :
        /\ cmd.pc = "writing"
        /\ cmd.op = "set_led"
        /\ cmd.w.ready
        /\ cmd.w.frame[4] = 50
        /\ loops[i].pc = "writing"
        /\ loops[i].w.frame = <<8, 0, 129, 0, 17, 81, 0, 30>>

(***************************************************************************)
(* C24.  connect() ends with one of three outcomes: whenever a call of     *)
(* connect() has ended, it has returned Ready (True), ConnectFailed (False: *)
(* no hub found, or the transport did not connect) or DiscoveryTimeout     *)
(* (False after the bounded wait).                                         *)
(***************************************************************************)
C24_ConnectOutcomes ==
    life.pc = "idle" =>
        life.result \in {"none", "disconnected", "True", "False:no_hub",
                         "False:connect", "False:timeout"}

(***************************************************************************)
(* C25.  disconnect() terminates: with a fair event loop and transport     *)
(* calls that return, a disconnect() that waits for the heartbeat task, or *)
(* for the unsubscribe or the close, eventually returns.                   *)
(***************************************************************************)
C25_DisconnectTerminates ==
    (life.pc \in {"joining", "unsubscribing", "closing"}) ~> (life.pc = "idle")

\* disconnect() waits for the heartbeat task, which has left its loop
\* because running is False
C25_Witness ==
    /\ life.pc = "joining"
    /\ life.op = "disconnect"
    /\ ~running
    /\ heartbeat_task # 0
    /\ loops[heartbeat_task].pc = "done"

(***************************************************************************)
(* C26.  At most one heartbeat loop is active per Controller in every      *)
(* reachable state, whatever the sequence of connect() and disconnect()    *)
(* calls.                                                                  *)
(***************************************************************************)
C26_OneHeartbeatLoop ==
    Cardinality({i \in LoopIds : loops[i].pc \in {"ready", "writing"}}) <= 1

(***************************************************************************)
(* C27.  No motion is commanded on a new connection without a new command: *)
(* after set_speed(v) with v # 0, a disconnect() and a connect() that      *)
(* returned True, no heartbeat pass writes a motor frame with non-zero     *)
(* power before set_speed is called again.                                 *)
(***************************************************************************)
C27_NoMotionCarriedOver ==
    [][\A i \in LoopIds :
          (/\ carried
           /\ life.pc = "idle"
           /\ life.result = "True"
           /\ HeartbeatTick(i)
           /\ loops'[i].pc = "writing") =>
              ~ /\ IsMotorCommand(loops'[i].w.frame)
                /\ loops'[i].w.frame[8] # 0]_vars

(***************************************************************************)
(* C28.  The running flag reflects the liveness of the heartbeat: when the *)
(* heartbeat task has left its loop, for whatever reason, running is       *)
(* False.                                                                  *)
(***************************************************************************)
C28_RunningReflectsLoop ==
    \A i \in LoopIds :
        (heartbeat_task = i /\ loops[i].pc = "done") => ~running

=============================================================================
